---- MODULE Spec2Model ----
(***************************************************************************)
(* Model of auraloss/freq.py: STFTLoss, MultiResolutionSTFTLoss,           *)
(* RandomResolutionSTFTLoss and SumAndDifferenceSTFTLoss.                  *)
(*                                                                         *)
(* The numeric collaborators (torch.stft, torch.norm, l1_loss, librosa     *)
(* filterbanks) are outside the file; the values they return are inputs    *)
(* of the forward actions, drawn from 0..MaxMetric, and a signal pair has  *)
(* the same metric values at every resolution.  Python's None is the       *)
(* string "None".  Floats that only ever hold small whole numbers are      *)
(* integers; an average is the pair <<numerator, denominator>>.            *)
(***************************************************************************)
EXTENDS Integers, Sequences, FiniteSets, TLC

VARIABLES
    stft,       \* a standalone STFTLoss object (or the failure of its constructor)
    stftOut,    \* outcome of the last call of stft
    rr,         \* a RandomResolutionSTFTLoss object (fields of self)
    rrOut,      \* outcome of the last forward call on rr
    sampled,    \* history: when the current member list was sampled
    nsuccess,   \* history: number of forward calls that returned a loss
    pc,         \* concurrent use: where each worker is inside forward
    loc,        \* concurrent use: each worker's locals (loop index n, value
                \* read for `+= 1`)
    sdA,        \* a SumAndDifferenceSTFTLoss object
    sdB,        \* another one, built from the same arguments except
                \* w_sum and w_diff
    sdArgs,     \* history: the w_sum and w_diff passed to each constructor
    sdOut,      \* outcome of the last call, made on both with the same signals
    conc        \* concurrent use, history: calls started and returned,
                \* whether two calls overlapped, whether a call evaluated
                \* over fewer than `resolutions` members

\* ---------------------------------------------------------------- bounds
MaxLog2 == 6
MaxMetric == 1
MaxRes == 1
MaxRate == 2
MaxForwards == 2
MaxConcCalls == 3

\* ----------------------------------------------------- program constants
DefaultMinFFT == 16

\* ------------------------------------------------------------ value sets
None == "None"
\* None in an argument that otherwise holds an integer (sample_rate, n_bins)
NoneInt == 0 - 1
NoObj == [ok |-> FALSE, error |-> "unconstructed"]
ScaleModes == {None, "mel", "chroma"}
ReductionModes == {"none", "mean", "sum"}
\* values a caller can pass: the documented ones and one that is not
ScaleArgs == ScaleModes \cup {"bark"}
ReductionArgs == ReductionModes \cup {"max"}
OutputArgs == {"loss", "full"}
Metrics == 0..MaxMetric
Pow2(u) == 2 ^ u

\* --------------------------------------------------------------- STFTLoss
\* STFTLoss.__init__: stores every argument as given, then builds the
\* filterbank when scale is "mel" or "chroma" (asserting sample_rate and
\* n_bins <= fft_size).  n_bins = None makes `n_bins <= fft_size` a TypeError.
STFTLossInit(a) ==
    IF a.scale \in {"mel", "chroma"} /\ a.sample_rate = NoneInt
    THEN [ok |-> FALSE, error |-> "AssertionError"]
    ELSE IF a.scale \in {"mel", "chroma"} /\ a.n_bins = NoneInt
    THEN [ok |-> FALSE, error |-> "TypeError"]
    ELSE IF a.scale \in {"mel", "chroma"} /\ a.n_bins > a.fft_size
    THEN [ok |-> FALSE, error |-> "AssertionError"]
    ELSE [ok |-> TRUE,
          fft_size |-> a.fft_size, hop_size |-> a.hop_size,
          win_length |-> a.win_length, window |-> a.window,
          w_sc |-> a.w_sc, w_mag |-> a.w_mag,
          w_real |-> a.w_real, w_imag |-> a.w_imag,
          sample_rate |-> a.sample_rate, scale |-> a.scale,
          n_bins |-> a.n_bins, output |-> a.output,
          reduction |-> a.reduction,
          has_fb |-> a.scale \in {"mel", "chroma"}]

\* utils.apply_reduction on the 0-dimensional loss: mean and sum of a single
\* element are the element, "none" returns it unchanged.
apply_reduction(loss, reduction) ==
    CASE reduction = "mean" -> loss
      [] reduction = "sum" -> loss
      [] OTHER -> loss

\* What `return loss, sc_loss, mag_loss, phs_loss` yields: phs_loss is never
\* assigned in forward, so evaluating the tuple raises NameError.
FullReturn(loss, sc_loss, mag_loss) ==
    [kind |-> "error", error |-> "NameError"]

\* STFTLoss.forward; m holds the values of the four metric evaluations.
STFTLossForward(f, m) ==
    IF f.scale # None /\ ~f.has_fb
    THEN [kind |-> "error", error |-> "AttributeError"]
    ELSE LET base == (f.w_sc * m.sc) + (f.w_mag * m.mag)
             withReal == IF f.w_real > 0 THEN base + f.w_real * m.real ELSE base
             withImag == IF f.w_imag > 0 THEN withReal + f.w_imag * m.imag
                         ELSE withReal
             loss == apply_reduction(withImag, f.reduction)
         IN  IF f.output = "loss" THEN [kind |-> "loss", loss |-> loss]
             ELSE IF f.output = "full" THEN FullReturn(loss, m.sc, m.mag)
             ELSE [kind |-> "none"]

\* Values the four metric evaluations of one call can take.  Spectral
\* convergence and log-magnitude distance are both zero exactly when the two
\* magnitude spectra are equal, so they are zero together.
MetricInputs ==
    { m \in [sc : Metrics, mag : Metrics, real : Metrics, imag : Metrics] :
        (m.sc = 0) <=> (m.mag = 0) }

STFTArgs ==
    [fft_size : {Pow2(u) : u \in 4..MaxLog2}, hop_size : {4},
     win_length : {16}, window : {"hann_window"},
     w_sc : {1}, w_mag : {1}, w_real : {0, 1}, w_imag : {0, 1},
     sample_rate : {NoneInt, 1}, scale : ScaleArgs, n_bins : {NoneInt, 32},
     output : OutputArgs, reduction : ReductionArgs]

NoOut == [kind |-> "nocall"]

\* STFTLoss(...) by a caller
STFTConstruct ==
    /\ ~stft.ok
    /\ stft.error = "unconstructed"
    /\ \E a \in STFTArgs : stft' = STFTLossInit(a)
    /\ UNCHANGED stftOut

\* loss(x, y) on the constructed object
STFTCall ==
    /\ stft.ok
    /\ \E m \in MetricInputs :
          stftOut' = [res |-> STFTLossForward(stft, m), m |-> m]
    /\ UNCHANGED stft

\* ---------------------------------------------- RandomResolutionSTFTLoss
\* np.log2 of a power of two
Log2(n) == CHOOSE u \in 0..(MaxLog2 + 1) : Pow2(u) = n

FrameExponentsInclusive(min_fft_size, max_fft_size) ==
    Log2(min_fft_size)..Log2(max_fft_size)

\* 2 ** np.random.randint(np.log2(min_fft_size), np.log2(max_fft_size)):
\* randint excludes its upper end
FrameExponents(min_fft_size, max_fft_size) ==
    Log2(min_fft_size)..(Log2(max_fft_size) - 1)

\* np.random.choice([1.0, 0.5, 0.25]), in quarters
WinCoeffs == {4, 2, 1}

\* np.random.rand(), in tenths; hop_size only reaches the external transform,
\* so one value of the draw stands for the interval
RandTenths == {5}

\* int(frame_size * (min_hop_size + rand * (max_hop_size - min_hop_size)))
\* with the default min_hop_size = 0.1 and max_hop_size = 1.0
HopSize(frame_size, r) == (frame_size * (10 + r * (10 - 1))) \div 100

\* int(frame_size * c)
WindowLength(frame_size, c) == (frame_size * c) \div 4

\* one iteration's random draws
Draws(o) ==
    [u : FrameExponents(o.min_fft_size, o.max_fft_size), r : RandTenths,
     c : WinCoeffs, w : 1..Len(o.windows)]

\* the STFTLoss(...) call of randomize_losses, other arguments at defaults
MemberArgs(o, d) ==
    [fft_size |-> Pow2(d.u), hop_size |-> HopSize(Pow2(d.u), d.r),
     win_length |-> WindowLength(Pow2(d.u), d.c), window |-> o.windows[d.w],
     w_sc |-> o.w_sc, w_mag |-> o.w_mag, w_real |-> o.w_real,
     w_imag |-> o.w_imag, sample_rate |-> o.sample_rate, scale |-> o.scale,
     n_bins |-> o.n_mels, output |-> "loss", reduction |-> "mean"]

RangeHasNextShort(n, resolutions) == n < resolutions

\* `for n in range(self.resolutions)`, n counted from 1 here
RangeHasNext(n, resolutions) == n <= resolutions

\* the loop of randomize_losses from iteration n on, acc the list so far; a
\* member whose constructor raises ends the loop with the list as it stands
RECURSIVE RandomizeFrom(_, _, _, _)
RandomizeFrom(o, ds, n, acc) ==
    IF ~RangeHasNext(n, o.resolutions)
    THEN [stft_losses |-> acc, error |-> None]
    ELSE LET f == STFTLossInit(MemberArgs(o, ds[n]))
         IN  IF ~f.ok THEN [stft_losses |-> acc, error |-> f.error]
             ELSE RandomizeFrom(o, ds, n + 1, Append(acc, f))

\* randomize_losses: a fresh ModuleList, then the loop
randomize_losses(o, ds) == RandomizeFrom(o, ds, 1, <<>>)

\* RandomResolutionSTFTLoss.__init__
RRInit(a, ds) ==
    LET o == [ok |-> TRUE, resolutions |-> a.resolutions,
              min_fft_size |-> a.min_fft_size, max_fft_size |-> a.max_fft_size,
              windows |-> a.windows, randomize_rate |-> a.randomize_rate,
              w_sc |-> 1, w_mag |-> 1, w_real |-> 0, w_imag |-> 0,
              sample_rate |-> a.sample_rate, scale |-> a.scale,
              n_mels |-> a.n_mels, nforwards |-> 0, stft_losses |-> <<>>]
        z == randomize_losses(o, ds)
    IN  IF z.error # None THEN [ok |-> FALSE, error |-> z.error]
        ELSE [o EXCEPT !.stft_losses = z.stft_losses]

TooShortStrict(length, max_fft_size) == length < max_fft_size

\* `x.size(-1) <= self.max_fft_size`
TooShort(length, max_fft_size) == length <= max_fft_size

\* the two length tests at the head of forward
LengthCheck(input_len, target_len, max_fft_size) ==
    IF TooShort(input_len, max_fft_size)
    THEN [kind |-> "error", error |-> "ValueError", signal |-> "Input",
          length |-> input_len]
    ELSE IF TooShort(target_len, max_fft_size)
    THEN [kind |-> "error", error |-> "ValueError", signal |-> "Target",
          length |-> target_len]
    ELSE [kind |-> "ok"]

ShouldRandomizeLate(nforwards, randomize_rate) ==
    nforwards % randomize_rate = randomize_rate - 1

ShouldRandomizeSkipFirst(nforwards, randomize_rate) ==
    nforwards > 0 /\ nforwards % randomize_rate = 0

\* `self.nforwards % self.randomize_rate == 0`
ShouldRandomize(nforwards, randomize_rate) == nforwards % randomize_rate = 0

\* the loop `for f in self.stft_losses: loss += f(input, target)` from member
\* n on; the first member that raises ends the call
RECURSIVE SumFrom(_, _, _, _)
SumFrom(losses, m, n, acc) ==
    IF n > Len(losses) THEN [kind |-> "sum", sum |-> acc]
    ELSE LET r == STFTLossForward(losses[n], m)
         IN  IF r.kind = "error" THEN r
             ELSE SumFrom(losses, m, n + 1, acc + r.loss)

\* the loop and `loss /= len(self.stft_losses)`: over an empty list loss is
\* still the float 0.0 and the division raises
Evaluate(losses, m) ==
    LET s == SumFrom(losses, m, 1, 0)
    IN  IF s.kind = "error" THEN s
        ELSE IF Len(losses) = 0
        THEN [kind |-> "error", error |-> "ZeroDivisionError"]
        ELSE [kind |-> "loss", loss |-> <<s.sum, Len(losses)>>]

\* self.nforwards += 1
Increment(nforwards) == nforwards + 1

\* frequency-scaling arguments a caller may combine
ScalingArgs ==
    { [scale |-> None, sample_rate |-> NoneInt, n_mels |-> NoneInt],
      [scale |-> "mel", sample_rate |-> 1, n_mels |-> 32],
      [scale |-> "mel", sample_rate |-> NoneInt, n_mels |-> 32],
      [scale |-> "chroma", sample_rate |-> 1, n_mels |-> NoneInt] }

RRArgs ==
    { [resolutions |-> n, min_fft_size |-> DefaultMinFFT,
       max_fft_size |-> Pow2(k), windows |-> <<"hann_window">>,
       randomize_rate |-> q, sample_rate |-> s.sample_rate,
       scale |-> s.scale, n_mels |-> s.n_mels] :
      n \in 1..MaxRes, k \in (Log2(DefaultMinFFT) + 1)..MaxLog2,
      q \in 1..MaxRate, s \in ScalingArgs }

DrawSeqs(o) == [1..o.resolutions -> Draws(o)]

\* signal lengths around the limit
Lengths(max_fft_size) == (max_fft_size - 1)..(max_fft_size + 1)

\* values of the two metrics on a signal pair (real/imag terms are weighted 0)
PairMetrics == { m \in MetricInputs : m.real = 0 /\ m.imag = 0 }

CtorSample == 0 - 1

\* RandomResolutionSTFTLoss(...) by a caller
RRConstruct ==
    /\ ~rr.ok
    /\ rr.error = "unconstructed"
    /\ \E a \in RRArgs : \E ds \in DrawSeqs(a) : rr' = RRInit(a, ds)
    /\ sampled' = CtorSample
    /\ UNCHANGED <<rrOut, nsuccess>>

\* outcome of forward once the lengths passed: o the object, lens the two
\* signal lengths, doR whether
\* randomize_losses ran, z its result (or the list as it was), e the result of
\* the evaluation loop
AfterCheck(o, lens, doR, z, e, sa) ==
    /\ sampled' = sa
    /\ IF z.error # None
       THEN /\ rr' = [o EXCEPT !.stft_losses = z.stft_losses]
            /\ rrOut' = [kind |-> "error", error |-> z.error, resampled |-> doR,
                         input_len |-> lens[1], target_len |-> lens[2]]
            /\ UNCHANGED nsuccess
       ELSE IF e.kind = "error"
       THEN /\ rr' = [o EXCEPT !.stft_losses = z.stft_losses]
            /\ rrOut' = [kind |-> "error", error |-> e.error, resampled |-> doR,
                         input_len |-> lens[1], target_len |-> lens[2]]
            /\ UNCHANGED nsuccess
       ELSE /\ rr' = [o EXCEPT !.stft_losses = z.stft_losses,
                               !.nforwards = Increment(o.nforwards)]
            /\ rrOut' = [kind |-> "loss", loss |-> e.loss, resampled |-> doR,
                         call |-> o.nforwards, sampled_at |-> sa,
                         input_len |-> lens[1], target_len |-> lens[2]]
            /\ nsuccess' = nsuccess + 1

\* RandomResolutionSTFTLoss.forward, the whole call
RRForward ==
    /\ rr.ok
    /\ rr.nforwards < MaxForwards
    /\ \E input_len \in Lengths(rr.max_fft_size),
          target_len \in Lengths(rr.max_fft_size) :
         \E v \in {LengthCheck(input_len, target_len, rr.max_fft_size)} :
           IF v.kind = "error"
           THEN /\ rrOut' = [kind |-> "error", error |-> v.error,
                             resampled |-> FALSE, message |-> v,
                             input_len |-> input_len, target_len |-> target_len]
                /\ UNCHANGED <<rr, sampled, nsuccess>>
           ELSE IF ShouldRandomize(rr.nforwards, rr.randomize_rate)
           THEN \E ds \in DrawSeqs(rr) :
                \E z \in {randomize_losses(rr, ds)} :
                \E m \in PairMetrics :
                \E e \in {IF z.error = None THEN Evaluate(z.stft_losses, m)
                          ELSE [kind |-> "skipped"]} :
                   AfterCheck(rr, <<input_len, target_len>>, TRUE, z, e, rr.nforwards)
           ELSE \E z \in {[stft_losses |-> rr.stft_losses, error |-> None]} :
                \E m \in PairMetrics :
                \E e \in {Evaluate(z.stft_losses, m)} :
                   AfterCheck(rr, <<input_len, target_len>>, FALSE, z, e, sampled)

\* ------------------------------------------------ MultiResolutionSTFTLoss
\* the loop of MultiResolutionSTFTLoss.__init__ over zip(fft_sizes,
\* hop_sizes, win_lengths) from index n on
RECURSIVE MRBuild(_, _, _)
MRBuild(a, n, acc) ==
    IF n > Len(a.fft_sizes) THEN [ok |-> TRUE, stft_losses |-> acc]
    ELSE LET f == STFTLossInit(
                    [fft_size |-> a.fft_sizes[n], hop_size |-> a.hop_sizes[n],
                     win_length |-> a.win_lengths[n], window |-> a.window,
                     w_sc |-> 1, w_mag |-> 1, w_real |-> 0, w_imag |-> 0,
                     sample_rate |-> NoneInt, scale |-> None,
                     n_bins |-> NoneInt, output |-> "loss",
                     reduction |-> "mean"])
         IN  IF ~f.ok THEN f ELSE MRBuild(a, n + 1, Append(acc, f))

\* MultiResolutionSTFTLoss.__init__ with the weights and scaling at defaults
MRInit(a) ==
    IF ~(Len(a.fft_sizes) = Len(a.hop_sizes)
         /\ Len(a.hop_sizes) = Len(a.win_lengths))
    THEN [ok |-> FALSE, error |-> "AssertionError"]
    ELSE MRBuild(a, 1, <<>>)

\* MultiResolutionSTFTLoss.forward
MRForward(mr, m) ==
    LET s == SumFrom(mr.stft_losses, m, 1, 0)
    IN  IF s.kind = "error" THEN s
        ELSE IF Len(mr.stft_losses) = 0
        THEN [kind |-> "error", error |-> "ZeroDivisionError"]
        ELSE [kind |-> "loss", loss |-> <<s.sum, Len(mr.stft_losses)>>]

\* ----------------------------------------------- SumAndDifferenceSTFTLoss
SDWeightsStored(w_sum, w_diff) == [w_sum |-> w_sum, w_diff |-> w_diff]

\* `self.w_sum = 1.0` and `self.w_diff = 1.0`
SDWeights(w_sum, w_diff) == [w_sum |-> 1, w_diff |-> 1]

\* SumAndDifferenceSTFTLoss.__init__
SDInit(a) ==
    LET mr == MRInit(a)
    IN  IF ~mr.ok THEN mr
        ELSE [ok |-> TRUE, w_sum |-> SDWeights(a.w_sum, a.w_diff).w_sum,
              w_diff |-> SDWeights(a.w_sum, a.w_diff).w_diff,
              output |-> a.output, mrstft |-> mr]

\* ((w_sum * sum_loss) + (w_diff * diff_loss)) / 2 on fractions
Combine(w_sum, sum_loss, w_diff, diff_loss) ==
    << (w_sum * sum_loss[1] * diff_loss[2]) + (w_diff * diff_loss[1] * sum_loss[2]),
       2 * sum_loss[2] * diff_loss[2] >>

\* SumAndDifferenceSTFTLoss.forward; ms and md are the metric values of the
\* (input_sum, target_sum) and (input_diff, target_diff) pairs
SDForward(sd, ms, md) ==
    LET sum_loss == MRForward(sd.mrstft, ms)
        diff_loss == MRForward(sd.mrstft, md)
    IN  IF sum_loss.kind = "error" THEN sum_loss
        ELSE IF diff_loss.kind = "error" THEN diff_loss
        ELSE LET loss == Combine(sd.w_sum, sum_loss.loss, sd.w_diff, diff_loss.loss)
             IN  IF sd.output = "loss" THEN [kind |-> "loss", loss |-> loss]
                 ELSE IF sd.output = "full"
                 THEN [kind |-> "full", loss |-> loss,
                       sum_loss |-> sum_loss.loss, diff_loss |-> diff_loss.loss]
                 ELSE [kind |-> "none"]

\* weights a caller may pass
WeightArgs == 0..2

\* resolution lists a caller may pass: the defaults, a single resolution, and
\* lists of unequal length
ResolutionLists ==
    { [fft_sizes |-> <<1024, 2048, 512>>, hop_sizes |-> <<120, 240, 50>>,
       win_lengths |-> <<600, 1200, 240>>],
      [fft_sizes |-> <<1024>>, hop_sizes |-> <<120>>, win_lengths |-> <<600>>],
      [fft_sizes |-> <<1024, 2048, 512>>, hop_sizes |-> <<120, 240>>,
       win_lengths |-> <<600, 1200, 240>>] }

SDArgs ==
    { [fft_sizes |-> l.fft_sizes, hop_sizes |-> l.hop_sizes,
       win_lengths |-> l.win_lengths, window |-> "hann_window",
       w_sum |-> ws, w_diff |-> wd, output |-> out] :
      l \in ResolutionLists, ws \in WeightArgs, wd \in WeightArgs,
      out \in OutputArgs }

\* two SumAndDifferenceSTFTLoss(...) calls that differ in w_sum and w_diff only
SDConstruct ==
    /\ ~sdA.ok
    /\ sdA.error = "unconstructed"
    /\ \E a \in SDArgs : \E w_sum \in WeightArgs, w_diff \in WeightArgs :
         /\ sdA' = SDInit(a)
         /\ sdB' = SDInit([a EXCEPT !.w_sum = w_sum, !.w_diff = w_diff])
         /\ sdArgs' = [a |-> <<a.w_sum, a.w_diff>>, b |-> <<w_sum, w_diff>>]
    /\ sdOut' = [called |-> FALSE]

\* forward of both objects on the same input and target
SDCall ==
    /\ sdA.ok
    /\ sdB.ok
    /\ \E ms \in PairMetrics, md \in PairMetrics :
         sdOut' = [called |-> TRUE, ms |-> ms, md |-> md,
                   a |-> SDForward(sdA, ms, md), b |-> SDForward(sdB, ms, md)]
    /\ UNCHANGED <<sdA, sdB, sdArgs>>

\* ------------------------------- forward called by two workers, unlocked
Workers == {1, 2}

ConcArgs ==
    { [resolutions |-> n, min_fft_size |-> DefaultMinFFT,
       max_fft_size |-> Pow2(Log2(DefaultMinFFT) + 1),
       windows |-> <<"hann_window">>, randomize_rate |-> q,
       sample_rate |-> NoneInt, scale |-> None, n_mels |-> NoneInt] :
      n \in 1..MaxRes, q \in 1..MaxRate }

OtherBusy(w) == \E v \in Workers \ {w} : pc[v] # "idle"

\* lines 361-366: the length tests and the read of self.nforwards
CBegin(w) ==
    /\ pc[w] = "idle"
    /\ conc.started < MaxConcCalls
    /\ \E input_len \in Lengths(rr.max_fft_size),
          target_len \in Lengths(rr.max_fft_size) :
         \E v \in {LengthCheck(input_len, target_len, rr.max_fft_size)} :
           IF v.kind = "error"
           THEN UNCHANGED pc
           ELSE pc' = [pc EXCEPT ![w] =
                         IF ShouldRandomize(rr.nforwards, rr.randomize_rate)
                         THEN "clear" ELSE "eval"]
    /\ conc' = [conc EXCEPT !.started = @ + 1,
                            !.overlapped = @ \/ (pc'[w] # "idle" /\ OtherBusy(w))]
    /\ UNCHANGED <<rr, loc>>

\* line 341: self.stft_losses = torch.nn.ModuleList()
CClear(w) ==
    /\ pc[w] = "clear"
    /\ rr' = [rr EXCEPT !.stft_losses = <<>>]
    /\ loc' = [loc EXCEPT ![w].n = 1]
    /\ pc' = [pc EXCEPT ![w] = "loop"]
    /\ UNCHANGED conc

\* lines 342-358: one iteration of the loop, or its end
CAppend(w) ==
    /\ pc[w] = "loop"
    /\ IF RangeHasNext(loc[w].n, rr.resolutions)
       THEN \E d \in Draws(rr) : \E f \in {STFTLossInit(MemberArgs(rr, d))} :
              IF f.ok
              THEN /\ rr' = [rr EXCEPT !.stft_losses = Append(@, f)]
                   /\ loc' = [loc EXCEPT ![w].n = @ + 1]
                   /\ UNCHANGED pc
              ELSE /\ pc' = [pc EXCEPT ![w] = "idle"]
                   /\ UNCHANGED <<rr, loc>>
       ELSE /\ pc' = [pc EXCEPT ![w] = "eval"]
            /\ UNCHANGED <<rr, loc>>
    /\ UNCHANGED conc

\* lines 369-372: the evaluation over the list as it is now
CEval(w) ==
    /\ pc[w] = "eval"
    /\ \E m \in PairMetrics : \E e \in {Evaluate(rr.stft_losses, m)} :
          pc' = [pc EXCEPT ![w] = IF e.kind = "error" THEN "idle" ELSE "read"]
    /\ conc' = [conc EXCEPT !.short = @ \/ Len(rr.stft_losses) < rr.resolutions]
    /\ UNCHANGED <<rr, loc>>

\* line 374, first half: load self.nforwards
CRead(w) ==
    /\ pc[w] = "read"
    /\ loc' = [loc EXCEPT ![w].tmp = rr.nforwards]
    /\ pc' = [pc EXCEPT ![w] = "write"]
    /\ UNCHANGED <<rr, conc>>

\* line 374, second half: store the sum; the call returns its loss
CWrite(w) ==
    /\ pc[w] = "write"
    /\ rr' = [rr EXCEPT !.nforwards = Increment(loc[w].tmp)]
    /\ pc' = [pc EXCEPT ![w] = "idle"]
    /\ conc' = [conc EXCEPT !.returned = @ + 1]
    /\ UNCHANGED loc

vars == <<stft, stftOut, rr, rrOut, sampled, nsuccess, pc, loc, conc, sdA, sdB, sdArgs,
          sdOut>>
stftVars == <<stft, stftOut>>
rrVars == <<rr, rrOut, sampled, nsuccess>>
concVars == <<pc, loc, conc>>
sdVars == <<sdA, sdB, sdArgs, sdOut>>

InitSDVars ==
    /\ sdA = NoObj
    /\ sdB = NoObj
    /\ sdArgs = [a |-> <<1, 1>>, b |-> <<1, 1>>]
    /\ sdOut = [called |-> FALSE]

InitConcVars ==
    /\ pc = [w \in Workers |-> "idle"]
    /\ loc = [w \in Workers |-> [n |-> 1, tmp |-> 0]]
    /\ conc = [started |-> 0, returned |-> 0, overlapped |-> FALSE,
               short |-> FALSE]

InitRRVars ==
    /\ rr = NoObj
    /\ rrOut = NoOut
    /\ sampled = CtorSample
    /\ nsuccess = 0

InitSTFTVars ==
    /\ stft = NoObj
    /\ stftOut = [res |-> NoOut, m |-> [sc |-> 0, mag |-> 0, real |-> 0, imag |-> 0]]

InitSTFT == InitSTFTVars /\ InitRRVars /\ InitConcVars /\ InitSDVars

NextSTFT ==
    \/ STFTConstruct /\ UNCHANGED <<rrVars, concVars, sdVars>>
    \/ STFTCall /\ UNCHANGED <<rrVars, concVars, sdVars>>

SpecSTFT == InitSTFT /\ [][NextSTFT]_vars

InitRand == InitSTFTVars /\ InitRRVars /\ InitConcVars /\ InitSDVars

NextRand ==
    \/ RRConstruct /\ UNCHANGED <<stftVars, concVars, sdVars>>
    \/ RRForward /\ UNCHANGED <<stftVars, concVars, sdVars>>

SpecRand == InitRand /\ [][NextRand]_vars

\* the shared object as its constructor left it
InitConc ==
    /\ InitSTFTVars
    /\ InitConcVars
    /\ InitSDVars
    /\ rr \in UNION { {RRInit(a, ds) : ds \in DrawSeqs(a)} : a \in ConcArgs }
    /\ rrOut = NoOut
    /\ sampled = CtorSample
    /\ nsuccess = 0

NextConc ==
    \E w \in Workers :
       \/ CBegin(w) /\ UNCHANGED <<stftVars, sdVars, rrOut, sampled, nsuccess>>
       \/ CClear(w) /\ UNCHANGED <<stftVars, sdVars, rrOut, sampled, nsuccess>>
       \/ CAppend(w) /\ UNCHANGED <<stftVars, sdVars, rrOut, sampled, nsuccess>>
       \/ CEval(w) /\ UNCHANGED <<stftVars, sdVars, rrOut, sampled, nsuccess>>
       \/ CRead(w) /\ UNCHANGED <<stftVars, sdVars, rrOut, sampled, nsuccess>>
       \/ CWrite(w) /\ UNCHANGED <<stftVars, sdVars, rrOut, sampled, nsuccess>>

SpecConc == InitConc /\ [][NextConc]_vars

InitSD == InitSTFTVars /\ InitRRVars /\ InitConcVars /\ InitSDVars

NextSD ==
    \/ SDConstruct /\ UNCHANGED <<stftVars, rrVars, concVars>>
    \/ SDCall /\ UNCHANGED <<stftVars, rrVars, concVars>>

SpecSD == InitSD /\ [][NextSD]_vars

\* ================================================================ claims

\* ---- C1: forward raises the length error exactly when the input or the
\* target is no longer than max_fft_size (a length of max_fft_size raises,
\* max_fft_size + 1 does not); the error names the offending signal and its
\* length, and the input is tested first.
C1_LengthError ==
    (rr.ok /\ rrOut.kind # "nocall") =>
       LET raised == rrOut.kind = "error" /\ rrOut.error = "ValueError"
           inShort == rrOut.input_len <= rr.max_fft_size
           tgShort == rrOut.target_len <= rr.max_fft_size
       IN  /\ raised <=> (inShort \/ tgShort)
           /\ (raised /\ inShort) =>
                 /\ rrOut.message.signal = "Input"
                 /\ rrOut.message.length = rrOut.input_len
           /\ (raised /\ ~inShort) =>
                 /\ rrOut.message.signal = "Target"
                 /\ rrOut.message.length = rrOut.target_len

C1_Witness ==
    /\ rr.ok
    /\ rrOut.kind = "error"
    /\ rrOut.error = "ValueError"
    /\ rrOut.input_len = rr.max_fft_size
    /\ rrOut.target_len < rr.max_fft_size
    /\ rrOut.message.signal = "Input"

\* ---- C2: a forward call that returns a loss resampled the member list if
\* and only if nforwards mod randomize_rate was 0 when it started, left the
\* list unchanged otherwise, and raised nforwards by exactly one; nforwards
\* never decreases and always equals the number of calls that returned a loss.
C2_Cadence ==
    /\ [](rr.ok => rr.nforwards = nsuccess)
    /\ [][ (rr.ok /\ nsuccess' # nsuccess) =>
              /\ nsuccess' = nsuccess + 1
              /\ rrOut'.kind = "loss"
              /\ rrOut'.resampled <=> (rr.nforwards % rr.randomize_rate = 0)
              /\ (~rrOut'.resampled) => (rr'.stft_losses = rr.stft_losses)
              /\ rr'.nforwards = rr.nforwards + 1 ]_vars
    /\ [][ rr.ok => (rr'.ok /\ rr'.nforwards >= rr.nforwards) ]_vars
    /\ [][ (~rr.ok /\ rr'.ok) => (rr'.nforwards = 0 /\ sampled' = CtorSample
                                  /\ Len(rr'.stft_losses) = rr'.resolutions) ]_vars

C2_Witness ==
    /\ rr.ok
    /\ rr.randomize_rate = 2
    /\ rr.nforwards = 2
    /\ rrOut.kind = "loss"
    /\ ~rrOut.resampled

\* ---- C3: STFTLoss.forward returns the total alone when output is "loss"
\* and the tuple (total, sc_loss, mag_loss) when output is "full"; in both
\* modes the call ends with a value, not an error.
C3_ForwardReturns ==
    (stft.ok /\ stftOut.res.kind # "nocall"
       /\ stft.scale \in ScaleModes /\ stft.reduction \in ReductionModes) =>
       LET m == stftOut.m
           total == (stft.w_sc * m.sc) + (stft.w_mag * m.mag)
                    + (IF stft.w_real > 0 THEN stft.w_real * m.real ELSE 0)
                    + (IF stft.w_imag > 0 THEN stft.w_imag * m.imag ELSE 0)
       IN  /\ stftOut.res.kind # "error"
           /\ stft.output = "loss" =>
                 stftOut.res = [kind |-> "loss", loss |-> total]
           /\ stft.output = "full" =>
                 stftOut.res = [kind |-> "full", loss |-> total,
                                sc_loss |-> m.sc, mag_loss |-> m.mag]

\* ---- C4: no STFTLoss object holds a reduction other than none/mean/sum or
\* a scale other than None/mel/chroma once its constructor has returned.
C4_ModesRejected ==
    stft.ok => (stft.reduction \in ReductionModes /\ stft.scale \in ScaleModes)

\* ---- C5: frequency scaling without a sample rate, or with n_bins above
\* fft_size, fails in the constructor; so a constructed
\* RandomResolutionSTFTLoss never raises that error in a forward call, and
\* every member it holds with a mel or chroma scale has n_bins <= fft_size.
C5_ConfigErrorsAtConstruction ==
    rr.ok =>
       /\ ~(rrOut.kind = "error" /\ rrOut.error \in {"AssertionError", "TypeError"})
       /\ \A i \in 1..Len(rr.stft_losses) :
             rr.stft_losses[i].scale \in {"mel", "chroma"} =>
                /\ rr.stft_losses[i].sample_rate # NoneInt
                /\ rr.stft_losses[i].n_bins <= rr.stft_losses[i].fft_size

C7_MemberShape ==
    rr.ok =>
       /\ rrOut.kind \in {"nocall", "loss"} =>
             Len(rr.stft_losses) = rr.resolutions
       /\ \A i \in 1..Len(rr.stft_losses) :
             LET f == rr.stft_losses[i]
             IN  /\ \E u \in 0..(MaxLog2 + 1) : f.fft_size = 2 ^ u
                 /\ rr.min_fft_size <= f.fft_size
                 /\ f.fft_size < rr.max_fft_size
                 /\ f.win_length \in {f.fft_size, f.fft_size \div 2,
                                      f.fft_size \div 4}
                 /\ f.fft_size >= f.win_length

C7_Witness ==
    /\ rr.ok
    /\ rrOut.kind = "loss"
    /\ rr.nforwards >= 2
    /\ Len(rr.stft_losses) = rr.resolutions
    /\ rr.stft_losses[1].fft_size = rr.max_fft_size \div 2
    /\ rr.stft_losses[1].fft_size > rr.min_fft_size
    /\ rr.stft_losses[1].win_length = rr.stft_losses[1].fft_size \div 4

\* ---- C8: a forward call that ends in an error leaves nforwards and the
\* member list as they were before the call.
C8_FailedCallChangesNothing ==
    [][ (rr.ok /\ rrOut'.kind = "error") =>
           (rr'.nforwards = rr.nforwards /\ rr'.stft_losses = rr.stft_losses) ]_vars

\* ---- C9: with two workers inside forward at once a call can evaluate over
\* fewer than `resolutions` members, or an increment of nforwards can be
\* lost; neither happens while no two calls have overlapped, that is, when
\* each call runs as one atomic step.
C9_BadOnlyWhenOverlapped ==
    (conc.short \/ rr.nforwards < conc.returned) => conc.overlapped

C9_Witness ==
    /\ conc.short
    /\ rr.nforwards < conc.returned
    /\ \A w \in Workers : pc[w] = "idle"

\* ---- C10: the members sampled by the constructor are never evaluated; the
\* call numbered n (from 0, counting calls that returned a loss) evaluates
\* the members sampled at the start of call (n div randomize_rate) *
\* randomize_rate.
C10_SampleUsed ==
    (rr.ok /\ rrOut.kind = "loss") =>
       /\ rrOut.sampled_at # CtorSample
       /\ rrOut.sampled_at = (rrOut.call \div rr.randomize_rate) * rr.randomize_rate
       /\ sampled = rrOut.sampled_at

C10_Witness ==
    /\ rr.ok
    /\ rrOut.kind = "loss"
    /\ rr.randomize_rate = 2
    /\ rrOut.call = 1
    /\ rrOut.sampled_at = 0

====
